---- MODULE Spec2Model ----
(***************************************************************************)
(* A model of src/src/index.ts: mainAsync, the flow that sets allowances,  *)
(* deposits, fans out one order-creation task per WETH owner, fetches the  *)
(* order book, sorts the bids best rate first and fills up to 300 ZRX.     *)
(*                                                                         *)
(* Each action is one resumption of an async function: the code between    *)
(* the await that suspended it and the next await, which JavaScript runs   *)
(* without interleaving.  Amounts are in whole tokens (the code's base     *)
(* units are these times 10^DECIMALS, a common factor of every amount).    *)
(* Identities are integers: addresses[0] = 0, wethOwnerAddresses = 1..n,    *)
(* n the number of addresses the node makes available besides the first.    *)
(***************************************************************************)
EXTENDS Integers, Sequences, FiniteSets, TLC

\* ---------------------------------------------------------------- bounds
\* wethOwnerAddresses.length (addresses.slice(1))
NumMakers == 2
\* the longest bids list the relayer returns
MaxBook == 3
\* how far Date.now() advances during a run
MaxClock == 1
\* the largest fill target the fill harness (SpecFill) draws
MaxTarget == 7
\* the most WETH owners the scenario of the run's own orders (SpecScenario) draws
MaxScenarioMakers == 3
\* bignumber.js rounds a quotient to DECIMAL_PLACES decimal places (the
\* library's default is 20); the model keeps fewer so that the scaled
\* quotients stay within TLC's integers.
DECIMAL_PLACES == 3

\* ------------------------------------------------------ program constants
ethToConvert == 5
MakerTokenUnits == 5
ExchangeRateStep == 10
FillUnits == 300
ExpirationOffset == 3600000

zrxOwnerAddress == 0
NULL_ADDRESS == 999
WETH_ADDRESS == "WETH"
ZRX_ADDRESS == "ZRX"
EXCHANGE_ADDRESS == "EXCHANGE"

\* ------------------------------------------------------------- BigNumber
RECURSIVE Pow10(_)
Pow10(n) == IF n = 0 THEN 1 ELSE 10 * Pow10(n - 1)

\* BigNumber.div for positive operands: the quotient rounded half up to
\* DECIMAL_PLACES decimal places, held as an integer count of 10^-DECIMAL_PLACES.
Div(x, y) == (2 * x * Pow10(DECIMAL_PLACES) + y) \div (2 * y)

\* BigNumber.comparedTo
ComparedTo(x, y) == IF x > y THEN 1 ELSE IF x < y THEN -1 ELSE 0

\* ----------------------------------------------------------------- orders
\* { ...a, ...b }: object spread, the later object's fields win.
Spread(a, b) ==
    [f \in (DOMAIN a) \cup (DOMAIN b) |-> IF f \in DOMAIN b THEN b[f] ELSE a[f]]

\* ZeroEx.getOrderHashHex: a digest of the order's fields, modelled as their
\* canonical encoding in a fixed field order (collision free).
getOrderHashHex(order) ==
    << "orderHash",
       order.exchangeContractAddress, order.maker, order.taker,
       order.makerTokenAddress, order.takerTokenAddress,
       order.makerTokenAmount, order.takerTokenAmount,
       order.expirationUnixTimestampSec, order.salt,
       order.feeRecipient, order.makerFee, order.takerFee >>

\* zeroEx.signOrderHashAsync(orderHash, address): the signature binds the
\* hash and the signing address.
signOrderHash(orderHash, address) == [signer |-> address, hash |-> orderHash]

\* A signed order without its ecSignature.
StripSignature(signedOrder) ==
    [f \in (DOMAIN signedOrder) \ {"ecSignature"} |-> signedOrder[f]]

\* A variant of feesRequest whose exchange rate is index * 10.
feesRequest_RateFromIndex(address, now, salt) ==
    LET index == address - 1
        exchangeRate == index * ExchangeRateStep
        makerTokenAmount == MakerTokenUnits
        takerTokenAmount == makerTokenAmount * exchangeRate
    IN  [exchangeContractAddress |-> EXCHANGE_ADDRESS,
         maker |-> address,
         taker |-> NULL_ADDRESS,
         makerTokenAddress |-> WETH_ADDRESS,
         takerTokenAddress |-> ZRX_ADDRESS,
         makerTokenAmount |-> makerTokenAmount,
         takerTokenAmount |-> takerTokenAmount,
         expirationUnixTimestampSec |-> now + ExpirationOffset,
         salt |-> salt]

\* The fees request of the task of `address` (index = address - 1).
feesRequest(address, now, salt) ==
    LET index == address - 1
        exchangeRate == (index + 1) * ExchangeRateStep
        makerTokenAmount == MakerTokenUnits
        takerTokenAmount == makerTokenAmount * exchangeRate
    IN  [exchangeContractAddress |-> EXCHANGE_ADDRESS,
         maker |-> address,
         taker |-> NULL_ADDRESS,
         makerTokenAddress |-> WETH_ADDRESS,
         takerTokenAddress |-> ZRX_ADDRESS,
         makerTokenAmount |-> makerTokenAmount,
         takerTokenAmount |-> takerTokenAmount,
         expirationUnixTimestampSec |-> now + ExpirationOffset,
         salt |-> salt]

\* The relayer's fee quotes (FeesResponse).
FeeQuotes ==
    {[feeRecipient |-> 500, makerFee |-> 0, takerFee |-> 0],
     [feeRecipient |-> 500, makerFee |-> 1, takerFee |-> 2]}

\* A variant of MergeAndHash that hashes the order skeleton, with zero fees,
\* before the fee quote is merged in.
MergeAndHash_HashBeforeMerge(request, response) ==
    LET order == Spread(request, response)
    IN  [order |-> order,
         orderHash |-> getOrderHashHex(Spread(request,
                          [feeRecipient |-> 500, makerFee |-> 0, takerFee |-> 0]))]

\* Lines 89-95: merge the fee quote into the request, then hash the order.
MergeAndHash(request, response) ==
    LET order == Spread(request, response)
    IN  [order |-> order, orderHash |-> getOrderHashHex(order)]

\* An order another participant left with the relayer, signed by its maker.
ForeignOrder(maker, makerAmount, takerAmount, expiration) ==
    LET order == [exchangeContractAddress |-> EXCHANGE_ADDRESS,
                  maker |-> maker,
                  taker |-> NULL_ADDRESS,
                  makerTokenAddress |-> WETH_ADDRESS,
                  takerTokenAddress |-> ZRX_ADDRESS,
                  makerTokenAmount |-> makerAmount,
                  takerTokenAmount |-> takerAmount,
                  expirationUnixTimestampSec |-> expiration,
                  salt |-> 1,
                  feeRecipient |-> 500,
                  makerFee |-> 0,
                  takerFee |-> 0]
    IN  Spread(order, [ecSignature |-> signOrderHash(getOrderHashHex(order), maker)])

\* What the relayer holds before the run: two orders whose rates differ by
\* less than 10^-DECIMAL_PLACES (101, 102; 102 has expired), and one whose
\* rate equals that of 101 exactly (103).
ForeignOrders ==
    {ForeignOrder(101, 1, 3000, ExpirationOffset),
     ForeignOrder(102, 1, 4000, 0),
     ForeignOrder(103, 2, 6000, ExpirationOffset)}

\* What the relayer holds in the fill harness: small amounts, so that small
\* targets meet every case of the greedy walk.
HarnessOrders ==
    {ForeignOrder(201, 2, 1, ExpirationOffset),
     ForeignOrder(202, 2, 2, ExpirationOffset),
     ForeignOrder(203, 3, 3, ExpirationOffset),
     ForeignOrder(204, 1, 3, ExpirationOffset)}

\* ---------------------------------------------------------------- ranking
orderRate(order) == Div(order.makerTokenAmount, order.takerTokenAmount)

\* A variant of the comparator that never answers 0: -1 when orderA has the
\* better rate, 1 otherwise.
CompareOrders_NeverEqual(orderA, orderB) ==
    IF orderRate(orderA) > orderRate(orderB) THEN -1 ELSE 1

\* A variant of the comparator with its operands the other way round.
CompareOrders_Ascending(orderA, orderB) ==
    ComparedTo(orderRate(orderA), orderRate(orderB))

\* The comparator of lines 121-125: orderRateB.comparedTo(orderRateA).
CompareOrders(orderA, orderB) ==
    ComparedTo(orderRate(orderB), orderRate(orderA))

\* Array.prototype.sort with a comparator: a stable sort (ECMAScript 2019),
\* computed by insertion.
RECURSIVE InsertSorted(_, _)
InsertSorted(e, s) ==
    IF s = << >> THEN << e >>
    ELSE IF CompareOrders(s[Len(s)], e) > 0
         THEN Append(InsertSorted(e, SubSeq(s, 1, Len(s) - 1)), s[Len(s)])
         ELSE Append(s, e)

RECURSIVE SortPrefix(_, _)
SortPrefix(s, n) ==
    IF n = 0 THEN << >> ELSE InsertSorted(s[n], SortPrefix(s, n - 1))

\* A variant of Sort that stores each entry's rate in the entry.
Sort_WithRate(s) ==
    LET sorted == SortPrefix(s, Len(s))
    IN  [i \in DOMAIN sorted |-> Spread(sorted[i], [rate |-> orderRate(sorted[i])])]

Sort(s) == SortPrefix(s, Len(s))

\* ------------------------------------------------------------ FillExecutor
RECURSIVE SumTaker(_)
SumTaker(s) ==
    IF s = << >> THEN 0
    ELSE s[1].takerTokenAmount + SumTaker(Tail(s))

RECURSIVE SumAllocated(_)
SumAllocated(plan) ==
    IF plan = << >> THEN 0
    ELSE plan[1].allocatedTakerAmount + SumAllocated(Tail(plan))

\* The greedy walk of planFill from entry i on, `total` already allocated.
RECURSIVE PlanWalk(_, _, _, _, _, _)
PlanWalk(rankedEntries, i, total, targetTakerQuantity, partial, plan) ==
    IF total >= targetTakerQuantity THEN [ok |-> TRUE, plan |-> plan, error |-> "none"]
    ELSE IF i > Len(rankedEntries)
    THEN [ok |-> FALSE, plan |-> << >>, error |-> "InsufficientLiquidity"]
    ELSE LET entry == rankedEntries[i]
             remainder == targetTakerQuantity - total
             allocated == IF entry.takerTokenAmount >= remainder /\ partial
                          THEN remainder
                          ELSE entry.takerTokenAmount
         IN  PlanWalk(rankedEntries, i + 1, total + allocated, targetTakerQuantity,
                      partial,
                      Append(plan, [entry |-> entry, allocatedTakerAmount |-> allocated]))

\* Variants of planFill: one that never allocates in part, one that always
\* does, one that does not look at the target's sign.
planFill_AlwaysFull(rankedEntries, targetTakerQuantity, partial) ==
    IF targetTakerQuantity <= 0
    THEN [ok |-> FALSE, plan |-> << >>, error |-> "InvalidTarget"]
    ELSE PlanWalk(rankedEntries, 1, 0, targetTakerQuantity, FALSE, << >>)

planFill_AlwaysPartial(rankedEntries, targetTakerQuantity, partial) ==
    IF targetTakerQuantity <= 0
    THEN [ok |-> FALSE, plan |-> << >>, error |-> "InvalidTarget"]
    ELSE PlanWalk(rankedEntries, 1, 0, targetTakerQuantity, TRUE, << >>)

planFill_NoTargetCheck(rankedEntries, targetTakerQuantity, partial) ==
    PlanWalk(rankedEntries, 1, 0, targetTakerQuantity, partial, << >>)

\* planFill(rankedEntries, targetTakerQuantity, allowPartial) as the
\* specification of the FillExecutor describes it; index.ts leaves the walk to
\* zeroEx.exchange.fillOrdersUpToAsync.
planFill(rankedEntries, targetTakerQuantity, partial) ==
    IF targetTakerQuantity <= 0
    THEN [ok |-> FALSE, plan |-> << >>, error |-> "InvalidTarget"]
    ELSE PlanWalk(rankedEntries, 1, 0, targetTakerQuantity, partial, << >>)

\* ------------------------------------------------------------------ state
VARIABLES
    pc,              \* the await mainAsync is suspended on
    clock,           \* Date.now()
    txSent,          \* the allowance and deposit transactions sent
    txMined,         \* those awaitTransactionMinedAsync has seen mined
    task,            \* the order-creation task of each WETH owner
    reported,        \* what the catch block has logged
    relayerOrders,   \* the signed orders the relayer holds
    orderbookRequest, \* the order-book request, once sent
    bids,            \* orderbookResponse.bids as the relayer returned them
    bestOrders,      \* the bids after the sort
    rankedAt,        \* Date.now() when the bids were sorted
    target,          \* zrxAmount
    allowPartial,    \* the third argument of fillOrdersUpToAsync
    fillArgs,        \* the arguments of the fillOrdersUpToAsync call, if made
    fillState,       \* the fill: none, Planned, Submitted, Confirmed, Rejected, Failed
    fillPlan,        \* the plan of the fill, once made
    fillError,       \* why the fill failed
    ledgerRequests   \* the settlement requests the ledger has received

vars ==
    << pc, clock, txSent, txMined, task, reported, relayerOrders, orderbookRequest,
       bids, bestOrders,
       rankedAt, target, allowPartial, fillArgs, fillState, fillPlan, fillError,
       ledgerRequests >>

\* addresses.slice(1): the owners of the tasks; addresses: those and the first.
wethOwnerAddresses == DOMAIN task
addresses == {zrxOwnerAddress} \cup wethOwnerAddresses

\* ZeroEx.generatePseudoRandomSalt over one run: a fresh salt for each order,
\* in one of two draws.
Salts == {[a \in wethOwnerAddresses |-> seed + a] : seed \in {0, 10}}

setupVars == << txSent, txMined >>
bookVars == << orderbookRequest, bids, bestOrders, rankedAt >>
fillVars == << fillArgs, fillState, fillPlan, fillError, ledgerRequests >>
argVars == << target, allowPartial >>

\* A task that has not started.
IdleTask ==
    [pc |-> "idle", createdAt |-> << >>, request |-> << >>, order |-> << >>,
     orderHash |-> << >>, signer |-> << >>, signedOrder |-> << >>, log |-> << >>]

Init ==
    /\ pc = "init"
    /\ clock = 0
    /\ txSent = {}
    /\ txMined = {}
    /\ task = [a \in 1 .. NumMakers |-> IdleTask]
    /\ reported = << >>
    /\ relayerOrders = ForeignOrders
    /\ orderbookRequest = << >>
    /\ bids = << >>
    /\ bestOrders = << >>
    /\ rankedAt = 0
    /\ target = FillUnits
    /\ allowPartial = TRUE
    /\ fillArgs = << >>
    /\ fillState = "none"
    /\ fillPlan = << >>
    /\ fillError = "none"
    /\ ledgerRequests = << >>


\* ------------------------------------------------------------- the setup
AllowanceTxs(token) == {<< "allowance", token, a >> : a \in addresses}
\* Lines 57-60: one deposit of ethToConvert per WETH owner.
DepositTxs_Less == {<< "deposit", WETH_ADDRESS, a, ethToConvert - 1 >> : a \in wethOwnerAddresses}

DepositTxs == {<< "deposit", WETH_ADDRESS, a, ethToConvert >> : a \in wethOwnerAddresses}

\* A variant of AwaitAllMined that does not wait.
AwaitAllMined_NotAwaited == txMined

\* Lines 52-54 and 61-63: awaitTransactionMinedAsync for every transaction sent.
AwaitAllMined == txMined \cup txSent

\* Lines 17-48: the provider, the clients, the contract addresses and the
\* available addresses; then one ZRX allowance transaction per address.
Start ==
    /\ pc = "init"
    /\ txSent' = txSent \cup AllowanceTxs(ZRX_ADDRESS)
    /\ pc' = "zrxAllowance"
    /\ UNCHANGED << clock, txMined, task, reported, relayerOrders, bookVars,
                    argVars, fillVars >>

\* Lines 46-51: the ZRX allowance hashes are in; one WETH allowance
\* transaction per address.
ZrxAllowancesSent ==
    /\ pc = "zrxAllowance"
    /\ txSent' = txSent \cup AllowanceTxs(WETH_ADDRESS)
    /\ pc' = "wethAllowance"
    /\ UNCHANGED << clock, txMined, task, reported, relayerOrders, bookVars,
                    argVars, fillVars >>

\* Lines 49-54: the WETH allowance hashes are in; wait for all of them.
WethAllowancesSent ==
    /\ pc = "wethAllowance"
    /\ pc' = "allowanceMined"
    /\ UNCHANGED << clock, setupVars, task, reported, relayerOrders, bookVars,
                    argVars, fillVars >>

\* Lines 52-60: every allowance transaction is mined; one deposit of
\* ethToConvert per WETH owner.
AllowancesMined ==
    /\ pc = "allowanceMined"
    /\ txMined' = AwaitAllMined
    /\ txSent' = txSent \cup DepositTxs
    /\ pc' = "deposit"
    /\ UNCHANGED << clock, task, reported, relayerOrders, bookVars, argVars, fillVars >>

\* Lines 58-63: the deposit hashes are in; wait for all of them.
DepositsSent ==
    /\ pc = "deposit"
    /\ pc' = "depositMined"
    /\ UNCHANGED << clock, setupVars, task, reported, relayerOrders, bookVars,
                    argVars, fillVars >>

\* ------------------------------------------------- the order-creation tasks
\* Lines 61-86: every deposit is mined; the map callback runs for each WETH
\* owner up to its first await: it builds the fees request and sends it.
DepositsMined ==
    /\ pc = "depositMined"
    /\ txMined' = AwaitAllMined
    /\ \E salt \in Salts :
          task' = [a \in wethOwnerAddresses |->
                      [IdleTask EXCEPT !.pc = "fee",
                                       !.createdAt = << clock >>,
                                       !.request = << feesRequest(a, clock, salt[a]) >>,
                                       !.log = << "fee" >>]]
    /\ pc' = "orders"
    /\ UNCHANGED << clock, txSent, reported, relayerOrders, bookVars, argVars, fillVars >>

\* Line 98: the address asked to sign the order of the task of `address`.
signerOf_FirstAddress(address) == zrxOwnerAddress

signerOf(address) == address

\* Lines 86-98: the fee quote arrives; merge it, hash the order, ask the
\* maker's address for a signature.
TaskFeesResponse(a) ==
    /\ task[a].pc = "fee"
    /\ \E feesResponse \in FeeQuotes :
          LET made == MergeAndHash(task[a].request[1], feesResponse)
          IN  task' = [task EXCEPT ![a].pc = "sign",
                                   ![a].order = << made.order >>,
                                   ![a].orderHash = << made.orderHash >>,
                                   ![a].signer = << signerOf(a) >>,
                                   ![a].log = task[a].log \o << "merge", "hash", "sign" >>]
    /\ UNCHANGED << pc, clock, setupVars, reported, relayerOrders, bookVars, argVars,
                    fillVars >>

\* Lines 98-107: the signature arrives; append it and submit the signed order.
TaskSigned(a) ==
    /\ task[a].pc = "sign"
    /\ LET ecSignature == signOrderHash(task[a].orderHash[1], task[a].signer[1])
           signedOrder == Spread(task[a].order[1], [ecSignature |-> ecSignature])
       IN  task' = [task EXCEPT ![a].pc = "submit",
                                ![a].signedOrder = << signedOrder >>,
                                ![a].log = task[a].log \o << "submit" >>]
    /\ UNCHANGED << pc, clock, setupVars, reported, relayerOrders, bookVars, argVars,
                    fillVars >>

\* Lines 111-114: the request for the ZRX/WETH order book.
OrderbookRequest == [baseTokenAddress |-> ZRX_ADDRESS, quoteTokenAddress |-> WETH_ADDRESS]

\* A variant of FanInResolves that resolves with the first task to end.
FanInResolves_First(a) == TRUE

\* Lines 66 and 108: Promise.all resolves when the task of `a` ends and every
\* other task has ended before it.
FanInResolves(a) == \A b \in wethOwnerAddresses \ {a} : task[b].pc = "done"

\* Lines 107-117: the relayer acknowledges the order and the task ends.  When it
\* is the last one, Promise.all resolves and mainAsync asks for the order book.
TaskSubmitted(a) ==
    /\ task[a].pc = "submit"
    /\ task' = [task EXCEPT ![a].pc = "done"]
    /\ relayerOrders' = relayerOrders \cup {task[a].signedOrder[1]}
    /\ IF pc = "orders" /\ FanInResolves(a)
       THEN /\ orderbookRequest' = << OrderbookRequest >>
            /\ pc' = "orderbook"
       ELSE UNCHANGED << pc, orderbookRequest >>
    /\ UNCHANGED << clock, setupVars, reported, bids, bestOrders, rankedAt, argVars,
                    fillVars >>

TaskError(step) ==
    CASE step = "fee" -> "FeeRequestFailure"
      [] step = "sign" -> "SigningFailure"
      [] OTHER -> "SubmitFailure"

\* A variant of TaskFails in which a task's rejection does not reach mainAsync.
TaskFails_NoFanIn(a) ==
    /\ task[a].pc \in {"fee", "sign", "submit"}
    /\ task' = [task EXCEPT ![a].pc = "failed"]
    /\ UNCHANGED << pc, reported >>
    /\ UNCHANGED << clock, setupVars, relayerOrders, bookVars, argVars, fillVars >>

\* Lines 86, 98, 107 and 150-152: a task's await rejects and the task ends.
\* The first rejection rejects Promise.all: mainAsync's catch logs that error.
\* The other tasks are not cancelled; later rejections are dropped.
TaskFails(a) ==
    /\ task[a].pc \in {"fee", "sign", "submit"}
    /\ task' = [task EXCEPT ![a].pc = "failed"]
    /\ IF pc = "orders"
       THEN /\ pc' = "caught"
            /\ reported' = Append(reported, [who |-> a, error |-> TaskError(task[a].pc)])
       ELSE UNCHANGED << pc, reported >>
    /\ UNCHANGED << clock, setupVars, relayerOrders, bookVars, argVars, fillVars >>

\* -------------------------------------------------------- the order book
\* The lists without repetition, of length at most n, over the set S.
RECURSIVE ListsOver(_, _)
ListsOver(S, n) ==
    IF n = 0 THEN {<< >>}
    ELSE LET shorter == ListsOver(S, n - 1)
         IN  shorter \cup
             {Append(s, e) : s \in {t \in shorter : Len(t) = n - 1},
                             e \in S}

NoRepeats(s) == \A i, j \in DOMAIN s : i # j => s[i] # s[j]

\* Lines 117-136: the relayer answers with bids in any order; sort them in
\* place best rate first, map the rates, ask for the balances.
OrderbookResponse ==
    /\ pc = "orderbook"
    /\ \E response \in {s \in ListsOver(relayerOrders, MaxBook) : NoRepeats(s)} :
          /\ bids' = response
          /\ bestOrders' = Sort(response)
    /\ rankedAt' = clock
    /\ pc' = "balanceBefore"
    /\ UNCHANGED << clock, setupVars, task, reported, relayerOrders, orderbookRequest,
                    argVars, fillVars >>

\* ---------------------------------------------------------------- the fill
\* Lines 135-142: the balances are in; call fillOrdersUpToAsync with the
\* sorted bids, the amount, the flag and the taker.
BalancesBefore ==
    /\ pc = "balanceBefore"
    /\ fillArgs' = << [orders |-> bestOrders, fillTakerTokenAmount |-> target,
                       flag |-> allowPartial, takerAddress |-> zrxOwnerAddress] >>
    /\ fillState' = "Planned"
    /\ pc' = "fill"
    /\ UNCHANGED << clock, setupVars, task, reported, relayerOrders, bookVars, argVars,
                    fillPlan, fillError, ledgerRequests >>

\* A variant of FillResolves that does not wait for the transaction to be mined.
FillResolves_NoAwait ==
    /\ pc = "fill"
    /\ LET args == fillArgs[1]
           planned == planFill(args.orders, args.fillTakerTokenAmount, args.flag)
       IN  /\ planned.ok
           /\ fillPlan' = planned.plan
           /\ ledgerRequests' = Append(ledgerRequests, args)
    /\ fillState' = "Submitted"
    /\ pc' = "balanceAfter"
    /\ UNCHANGED << clock, setupVars, task, reported, relayerOrders, bookVars, argVars,
                    fillArgs, fillError >>

\* Lines 142-143: the call resolves with a transaction hash: the plan was
\* made and one settlement request went to the ledger; wait for it.
FillResolves ==
    /\ pc = "fill"
    /\ LET args == fillArgs[1]
           planned == planFill(args.orders, args.fillTakerTokenAmount, args.flag)
       IN  /\ planned.ok
           /\ fillPlan' = planned.plan
           /\ ledgerRequests' = Append(ledgerRequests, args)
    /\ fillState' = "Submitted"
    /\ pc' = "mined"
    /\ UNCHANGED << clock, setupVars, task, reported, relayerOrders, bookVars, argVars,
                    fillArgs, fillError >>

\* Lines 142 and 150-152: the call rejects before anything is sent.
FillRejects ==
    /\ pc = "fill"
    /\ LET args == fillArgs[1]
           planned == planFill(args.orders, args.fillTakerTokenAmount, args.flag)
       IN  /\ ~planned.ok
           /\ fillError' = planned.error
           /\ reported' = Append(reported, [who |-> zrxOwnerAddress, error |-> planned.error])
    /\ fillState' = "Failed"
    /\ pc' = "caught"
    /\ UNCHANGED << clock, setupVars, task, relayerOrders, bookVars, argVars, fillArgs,
                    fillPlan, ledgerRequests >>

\* Lines 143-147: the transaction is mined; ask for the balances again.
MinedConfirmed ==
    /\ pc = "mined"
    /\ fillState' = "Confirmed"
    /\ pc' = "balanceAfter"
    /\ UNCHANGED << clock, setupVars, task, reported, relayerOrders, bookVars, argVars,
                    fillArgs, fillPlan, fillError, ledgerRequests >>

\* A variant of MinedRejected whose catch calls fillOrdersUpToAsync again.
MinedRejected_Retry ==
    /\ pc = "mined"
    /\ fillState' = "Planned"
    /\ reported' = Append(reported, [who |-> zrxOwnerAddress, error |-> "LedgerRejection"])
    /\ pc' = "fill"
    /\ UNCHANGED << clock, setupVars, task, relayerOrders, bookVars, argVars, fillArgs,
                    fillPlan, fillError, ledgerRequests >>

\* Lines 143 and 150-152: awaitTransactionMinedAsync rejects; the catch logs it.
MinedRejected ==
    /\ pc = "mined"
    /\ fillState' = "Rejected"
    /\ reported' = Append(reported, [who |-> zrxOwnerAddress, error |-> "LedgerRejection"])
    /\ pc' = "caught"
    /\ UNCHANGED << clock, setupVars, task, relayerOrders, bookVars, argVars, fillArgs,
                    fillPlan, fillError, ledgerRequests >>

\* Lines 146-149: the balances after the fill are in and logged.
BalancesAfter ==
    /\ pc = "balanceAfter"
    /\ pc' = "done"
    /\ UNCHANGED << clock, setupVars, task, reported, relayerOrders, bookVars, argVars,
                    fillVars >>

\* The awaits of mainAsync outside the fan-out and the fill.
PlainAwaits ==
    {"zrxAllowance", "wethAllowance", "allowanceMined", "deposit", "depositMined",
     "orderbook", "balanceBefore", "balanceAfter"}

\* Lines 150-152: one of those awaits rejects; the catch logs the error.
AwaitRejects ==
    /\ pc \in PlainAwaits
    /\ reported' = Append(reported, [who |-> zrxOwnerAddress, error |-> pc])
    /\ pc' = "caught"
    /\ UNCHANGED << clock, setupVars, task, relayerOrders, bookVars, argVars, fillVars >>

\* Time passes. Date.now() is read when the tasks are created (line 81) and the
\* ranking is dated when the order book arrives; the clock is followed until
\* that last reading.
Tick ==
    /\ pc \in {"depositMined", "orders", "orderbook"}
    /\ clock < MaxClock
    /\ clock' = clock + 1
    /\ UNCHANGED << pc, setupVars, task, reported, relayerOrders, bookVars, argVars,
                    fillVars >>

TaskStep(a) ==
    \/ TaskFeesResponse(a)
    \/ TaskSigned(a)
    \/ TaskSubmitted(a)

Next ==
    \/ Start
    \/ ZrxAllowancesSent
    \/ WethAllowancesSent
    \/ AllowancesMined
    \/ DepositsSent
    \/ DepositsMined
    \/ \E a \in wethOwnerAddresses : TaskFeesResponse(a)
    \/ \E a \in wethOwnerAddresses : TaskSigned(a)
    \/ \E a \in wethOwnerAddresses : TaskSubmitted(a)
    \/ \E a \in wethOwnerAddresses : TaskFails(a)
    \/ OrderbookResponse
    \/ BalancesBefore
    \/ FillResolves
    \/ FillRejects
    \/ MinedConfirmed
    \/ MinedRejected
    \/ BalancesAfter
    \/ AwaitRejects
    \/ Tick

Spec == Init /\ [][Next]_vars

\* ------------------------------------------------------- the fill harness
\* The flow from the order-book request on, for every target and either
\* value of the flag, over a book of small orders.
InitFill ==
    /\ pc = "orderbook"
    /\ clock = 0
    /\ txSent = {}
    /\ txMined = {}
    /\ task = [a \in 1 .. NumMakers |-> IdleTask]
    /\ reported = << >>
    /\ relayerOrders = HarnessOrders
    /\ orderbookRequest = << OrderbookRequest >>
    /\ bids = << >>
    /\ bestOrders = << >>
    /\ rankedAt = 0
    /\ target \in -1 .. MaxTarget
    /\ allowPartial \in BOOLEAN
    /\ fillArgs = << >>
    /\ fillState = "none"
    /\ fillPlan = << >>
    /\ fillError = "none"
    /\ ledgerRequests = << >>

NextFill ==
    \/ OrderbookResponse
    \/ BalancesBefore
    \/ FillResolves
    \/ FillRejects
    \/ MinedConfirmed
    \/ MinedRejected
    \/ BalancesAfter
    \/ AwaitRejects
    \/ Tick

SpecFill == InitFill /\ [][NextFill]_vars


\* ------------------------------------------- the run's own orders alone
\* The whole flow for every number of WETH owners up to MaxScenarioMakers, the
\* relayer holding nothing before the run.
InitScenario ==
    /\ pc = "init"
    /\ clock = 0
    /\ txSent = {}
    /\ txMined = {}
    /\ \E n \in 1 .. MaxScenarioMakers : task = [a \in 1 .. n |-> IdleTask]
    /\ reported = << >>
    /\ relayerOrders = {}
    /\ orderbookRequest = << >>
    /\ bids = << >>
    /\ bestOrders = << >>
    /\ rankedAt = 0
    /\ target = FillUnits
    /\ allowPartial = TRUE
    /\ fillArgs = << >>
    /\ fillState = "none"
    /\ fillPlan = << >>
    /\ fillError = "none"
    /\ ledgerRequests = << >>

SpecScenario == InitScenario /\ [][Next]_vars

\* ------------------------------------------------------------- the claims
\* The fill call has resolved or rejected.
FillSettled == fillState \in {"Submitted", "Confirmed", "Rejected", "Failed"}

\* The plan takes the ranked entries in rank order, from the first one on.
PlanIsPrefix ==
    /\ Len(fillPlan) <= Len(bestOrders)
    /\ \A i \in DOMAIN fillPlan : fillPlan[i].entry = bestOrders[i]

\* No entry after the plan's last one is in the plan.
LaterEntriesUntouched ==
    \A j \in (Len(fillPlan) + 1) .. Len(bestOrders) :
        \A i \in DOMAIN fillPlan : fillPlan[i].entry # bestOrders[j]

FullyAllocated(i) ==
    fillPlan[i].allocatedTakerAmount = fillPlan[i].entry.takerTokenAmount

\* C1: with allowPartial and a target T, 0 < T <= the ranked entries' total
\* takerAmount, planFill makes a plan that is a prefix of the ranked entries in
\* rank order; every entry before the last is allocated in full, the last one
\* exactly the remainder still needed, later entries nothing; no allocation
\* exceeds its entry's takerAmount and the allocations sum to exactly T.
C1_PartialFillPlan ==
    (FillSettled /\ allowPartial /\ target > 0 /\ target <= SumTaker(bestOrders)) =>
        /\ fillState # "Failed"
        /\ fillPlan # << >>
        /\ PlanIsPrefix
        /\ LaterEntriesUntouched
        /\ \A i \in DOMAIN fillPlan :
              /\ fillPlan[i].allocatedTakerAmount <= fillPlan[i].entry.takerTokenAmount
              /\ i < Len(fillPlan) => FullyAllocated(i)
              /\ i = Len(fillPlan) =>
                    /\ fillPlan[i].allocatedTakerAmount > 0
                    /\ fillPlan[i].allocatedTakerAmount =
                          target - SumAllocated(SubSeq(fillPlan, 1, i - 1))
        /\ SumAllocated(fillPlan) = target

\* A plan of two entries whose second is filled in part, a third left untouched.
C1_Witness ==
    /\ fillState = "Submitted"
    /\ allowPartial
    /\ Len(fillPlan) = 2
    /\ Len(bestOrders) = 3
    /\ FullyAllocated(1)
    /\ fillPlan[2].allocatedTakerAmount < fillPlan[2].entry.takerTokenAmount

\* C2: without allowPartial and a target T, 0 < T <= the ranked entries' total
\* takerAmount, every planned entry is allocated in full and the plan is the
\* shortest prefix of the ranked entries whose total is at least T: the total
\* is >= T, and without the last planned entry it is < T.
C2_FullFillPlan ==
    (FillSettled /\ ~allowPartial /\ target > 0 /\ target <= SumTaker(bestOrders)) =>
        /\ fillState # "Failed"
        /\ fillPlan # << >>
        /\ PlanIsPrefix
        /\ LaterEntriesUntouched
        /\ \A i \in DOMAIN fillPlan : FullyAllocated(i)
        /\ SumAllocated(fillPlan) >= target
        /\ SumAllocated(SubSeq(fillPlan, 1, Len(fillPlan) - 1)) < target

\* A plan of two entries, both in full, that overfills the target.
C2_Witness ==
    /\ fillState = "Submitted"
    /\ ~allowPartial
    /\ Len(fillPlan) = 2
    /\ Len(bestOrders) = 3
    /\ SumAllocated(fillPlan) > target

\* C3: planFill fails with InvalidTarget when the target is <= 0 and with
\* InsufficientLiquidity when the ranked entries' total takerAmount is below
\* the target; either way there is no plan and the ledger gets no request.
C3_PlanFillErrors ==
    FillSettled =>
        /\ target <= 0 =>
              /\ fillState = "Failed"
              /\ fillError = "InvalidTarget"
              /\ fillPlan = << >>
              /\ ledgerRequests = << >>
        /\ (target > 0 /\ SumTaker(bestOrders) < target) =>
              /\ fillState = "Failed"
              /\ fillError = "InsufficientLiquidity"
              /\ fillPlan = << >>
              /\ ledgerRequests = << >>

\* The ranked entries run out before a positive target is met.
C3_Witness ==
    /\ fillState = "Failed"
    /\ fillError = "InsufficientLiquidity"
    /\ Len(bestOrders) = 2
    /\ target > 0
    /\ pc = "caught"

\* validate(entry, nowTimestamp) of the specification, negated.
Invalid(entry, now) ==
    \/ entry.makerTokenAmount <= 0
    \/ entry.takerTokenAmount <= 0
    \/ entry.expirationUnixTimestampSec <= now

\* C4: an entry the relayer returns with a non-positive amount or with
\* expiration <= now is not in the output of the ranking and is not among the
\* orders of a fill request.
C4_InvalidEntriesDropped ==
    /\ \A i \in DOMAIN bestOrders : ~Invalid(bestOrders[i], rankedAt)
    /\ \A k \in DOMAIN fillArgs :
          \A i \in DOMAIN fillArgs[k].orders : ~Invalid(fillArgs[k].orders[i], rankedAt)

\* C5: the ranking is best rate first by the exact rational
\* makerAmount / takerAmount: for a before b in the output,
\* a.makerAmount * b.takerAmount >= b.makerAmount * a.takerAmount.
C5_ExactRateOrder ==
    \A i, j \in DOMAIN bestOrders :
        i < j =>
            bestOrders[i].makerTokenAmount * bestOrders[j].takerTokenAmount
              >= bestOrders[j].makerTokenAmount * bestOrders[i].takerTokenAmount

EqualRate(a, b) ==
    a.makerTokenAmount * b.takerTokenAmount = b.makerTokenAmount * a.takerTokenAmount

PositionIn(s, e) == CHOOSE i \in DOMAIN s : s[i] = e

\* C6: the ranking is stable: the output holds exactly the entries the relayer
\* returned, and two entries of equal rate keep the relative order in which
\* the relayer returned them.
C6_RankStable ==
    /\ Len(bestOrders) = Len(bids)
    /\ \A i \in DOMAIN bestOrders : \E k \in DOMAIN bids : bids[k] = bestOrders[i]
    /\ \A i, j \in DOMAIN bestOrders :
          (i < j /\ EqualRate(bestOrders[i], bestOrders[j])) =>
              PositionIn(bids, bestOrders[i]) < PositionIn(bids, bestOrders[j])

\* The sort moved an entry, and two entries of equal rate (103 before 101 in
\* the response) are in the output.
C6_Witness ==
    /\ bestOrders # bids
    /\ \E i, j \in DOMAIN bestOrders :
          /\ i < j
          /\ bestOrders[i].maker = 103
          /\ bestOrders[j].maker = 101

\* C7: ranking the output of the ranking gives the same sequence.
C7_RankIdempotent == Sort(bestOrders) = bestOrders

\* A response of three entries that the sort reordered, two of them of equal rate.
C7_Witness ==
    /\ Len(bestOrders) = 3
    /\ bestOrders # bids
    /\ \E i, j \in DOMAIN bestOrders : i # j /\ EqualRate(bestOrders[i], bestOrders[j])

Running(a) == task[a].pc \in {"fee", "sign", "submit"}
Failed(a) == task[a].pc = "failed"

\* The failure of a task leaves every other task as it was, and a task that is
\* still running can take its next step whatever has become of the others.
SiblingsKeepRunning ==
    \A b \in wethOwnerAddresses : Running(b) => ENABLED TaskStep(b)

IsPrefix(s, t) == Len(s) <= Len(t) /\ \A i \in DOMAIN s : s[i] = t[i]

\* C9: a task's steps are fee quote, merge, hash, sign, submit, in that order;
\* the signed order it submits carries, besides the signature, exactly the
\* fields that were hashed: its hash recomputed without the signature is the
\* hash that was signed, and the signer is its maker.
C9_SignedOrderIntegrity ==
    \A a \in wethOwnerAddresses :
        /\ IsPrefix(task[a].log, << "fee", "merge", "hash", "sign", "submit" >>)
        /\ task[a].signedOrder # << >> =>
              LET signedOrder == task[a].signedOrder[1]
              IN  /\ "submit" \in {task[a].log[i] : i \in DOMAIN task[a].log}
                  /\ StripSignature(signedOrder) = task[a].order[1]
                  /\ signedOrder.ecSignature.hash = task[a].orderHash[1]
                  /\ getOrderHashHex(StripSignature(signedOrder)) = signedOrder.ecSignature.hash
                  /\ signedOrder.ecSignature.signer = signedOrder.maker
        /\ task[a].pc = "done" => task[a].signedOrder[1] \in relayerOrders

\* The relayer holds an order of this run that carries a non-zero fee quote.
C9_Witness ==
    \E a \in wethOwnerAddresses :
        /\ task[a].pc = "done"
        /\ task[a].signedOrder[1].makerFee = 1
        /\ task[a].signedOrder[1] \in relayerOrders

FillTransitions ==
    {<< "none", "Planned" >>, << "Planned", "Submitted" >>, << "Planned", "Failed" >>,
     << "Submitted", "Confirmed" >>, << "Submitted", "Rejected" >>}

\* C10: a fill goes Planned -> Submitted -> Confirmed, Planned -> Submitted ->
\* Rejected or Planned -> Failed and nowhere else; a Failed fill sent the
\* ledger nothing; and a fill sends the ledger at most one request.
C10_FillLifecycle ==
    /\ [][fillState' # fillState => << fillState, fillState' >> \in FillTransitions]_vars
    /\ [](Len(ledgerRequests) <= 1)
    /\ [](fillState \in {"none", "Planned", "Failed"} => ledgerRequests = << >>)
    /\ [](fillState \in {"Submitted", "Confirmed", "Rejected"} => Len(ledgerRequests) = 1)

\* The ledger rejected the one request of the fill.
C10_Witness ==
    /\ fillState = "Rejected"
    /\ Len(ledgerRequests) = 1
    /\ pc = "caught"


\* C11: at most one fill transaction is outstanding, and while it is, mainAsync
\* stays suspended on awaitTransactionMinedAsync: the balances after the fill
\* are asked for only once the transaction is confirmed.
C11_FillAwaited ==
    /\ fillState = "Submitted" => (pc = "mined" /\ Len(ledgerRequests) = 1)
    /\ pc \in {"balanceAfter", "done"} => fillState = "Confirmed"
    /\ fillState = "Rejected" => pc = "caught"

\* The fill transaction is outstanding.
C11_Witness ==
    /\ fillState = "Submitted"
    /\ pc = "mined"
    /\ Len(ledgerRequests) = 1

\* The tasks whose signature request is in flight.
SignInFlight == {a \in wethOwnerAddresses : task[a].pc = "sign"}

\* C12: no two signature requests in flight at the same time are for the same
\* signing identity.
C12_OneSignaturePerIdentity ==
    \A a, b \in SignInFlight : a # b => task[a].signer[1] # task[b].signer[1]

\* Two signature requests are in flight at once.
C12_Witness == Cardinality(SignInFlight) >= 2

InBids(order) == \E k \in DOMAIN bids : bids[k] = order

\* C13: every entry of the ranking, every order of the fill call and of the
\* request the ledger receives, and every entry of the plan is, field for
\* field, an entry of the relayer's response.
C13_EntriesUnchanged ==
    /\ \A i \in DOMAIN bestOrders : InBids(bestOrders[i])
    /\ \A k \in DOMAIN fillArgs :
          \A i \in DOMAIN fillArgs[k].orders : InBids(fillArgs[k].orders[i])
    /\ \A k \in DOMAIN ledgerRequests :
          \A i \in DOMAIN ledgerRequests[k].orders : InBids(ledgerRequests[k].orders[i])
    /\ \A i \in DOMAIN fillPlan : InBids(fillPlan[i].entry)

\* The ledger has received a request whose orders the sort had reordered.
C13_Witness ==
    /\ Len(ledgerRequests) = 1
    /\ Len(bids) = 3
    /\ bestOrders # bids

ValidParameters(order, createdAt) ==
    /\ order.makerTokenAmount > 0
    /\ order.takerTokenAmount > 0
    /\ order.expirationUnixTimestampSec > createdAt

C15_FanInBarrier ==
    /\ orderbookRequest # << >> =>
          \A a \in wethOwnerAddresses :
              /\ task[a].pc = "done"
              /\ task[a].signedOrder[1] \in relayerOrders
    /\ (\E a \in wethOwnerAddresses : Failed(a)) =>
          /\ orderbookRequest = << >>
          /\ fillArgs = << >>
          /\ ledgerRequests = << >>

\* The order-book request is out, every task having ended.
C15_Witness ==
    /\ orderbookRequest # << >>
    /\ pc = "orderbook"
    /\ \A a \in wethOwnerAddresses : task[a].pc = "done"

\* C16: no task starts (no fee request, signature or submission) before every
\* allowance transaction, of both tokens and every address, and every deposit
\* is mined; and no WETH allowance transaction is sent before all the ZRX
\* allowance transactions are.
C16_SetupPrecedesTrading ==
    /\ (\E a \in wethOwnerAddresses : task[a].pc # "idle") =>
          (AllowanceTxs(ZRX_ADDRESS) \cup AllowanceTxs(WETH_ADDRESS) \cup DepositTxs)
              \subseteq txMined
    /\ (AllowanceTxs(WETH_ADDRESS) \cap txSent # {}) =>
          AllowanceTxs(ZRX_ADDRESS) \subseteq txSent

\* The tasks have started.
C16_Witness ==
    /\ pc = "orders"
    /\ \A a \in wethOwnerAddresses : task[a].pc = "fee"

RECURSIVE SumAmounts(_)
SumAmounts(txs) ==
    IF txs = {} THEN 0
    ELSE LET tx == CHOOSE t \in txs : TRUE
         IN  tx[4] + SumAmounts(txs \ {tx})

\* What the mined deposits of this run have put on the balance of `a`.
DepositedBalance(a) ==
    SumAmounts({tx \in txMined : tx[1] = "deposit" /\ tx[3] = a})

\* The orders of this run that the relayer holds.
RunOrders == {order \in relayerOrders : order.maker \in wethOwnerAddresses}

\* C17: each maker deposits exactly 5 and posts at most one order, whose
\* makerAmount is that deposit; when the fill is called each maker has exactly
\* one order with the relayer, and none exceeds its maker's deposit.
C17_OrdersCovered ==
    /\ \A a \in wethOwnerAddresses :
          /\ task[a].pc # "idle" => DepositedBalance(a) = 5
          /\ Cardinality({order \in RunOrders : order.maker = a}) <= 1
          /\ fillArgs # << >> => Cardinality({order \in RunOrders : order.maker = a}) = 1
    /\ \A order \in RunOrders : order.makerTokenAmount = DepositedBalance(order.maker)

\* The fill is submitted with an order of this run among its orders.
C17_Witness ==
    /\ fillState = "Submitted"
    /\ \E i \in DOMAIN bestOrders : bestOrders[i] \in RunOrders

\* The response holds every order of this run and nothing else.
OwnBook ==
    /\ Len(bids) = Cardinality(wethOwnerAddresses)
    /\ \A k \in DOMAIN bids : bids[k].maker \in wethOwnerAddresses

====
